---- MODULE Spec2Model ----
(***************************************************************************)
(* Model of the per-key hybrid rate limiter of                             *)
(* src/src/infrastructure/limiter/rate_limiter.rs: TokenBucket,            *)
(* SlidingWindow, RateHybridLimiter and RateHybridLimiterStore with its    *)
(* background eviction task.                                               *)
(*                                                                         *)
(* Time is the monotonic clock in whole seconds.  Token amounts are f64 in *)
(* the source; here they are exact fixed-point numbers in units of         *)
(* 1/RefillDen token, with refill_per_sec = RefillNum / RefillDen, so that *)
(* one second of refill adds RefillNum units and one token is RefillDen    *)
(* units.  The sliding window's weight is kept exact by scaling the        *)
(* effective count by window_size.                                         *)
(*                                                                         *)
(* The second part models the authentication path of the HTTP service:     *)
(* AuthMiddleware (src/src/interfaces/middlewares/auth.rs), the claims     *)
(* extractors, and AuthHandler's login, refresh_token and logout with the  *)
(* JWT service and the Redis deny lists.  It shares the clock.             *)
(***************************************************************************)
EXTENDS Integers, Sequences, FiniteSets, TLC

\* ---- bounds: the store with its callers and its eviction task (Spec) -----
Capacity == 1        \* capacity, in whole tokens
WindowSize == 1      \* window_size, seconds
Limit == 1           \* sliding-window limit
Ttl == 0             \* bucket_ttl, seconds
MaxTime == 1         \* the clock stops advancing here
MaxCalls == 4        \* is_allowed calls started in one behaviour
LiveMaxCalls == 3    \* the same, under fairness (FairSpec)
RefillPerSec == <<1, 2>>   \* refill_per_sec, as the fraction 1/2 token per second

\* ---- bounds: one caller on one key, over a range of configurations -------
\* (SeqSpec)
SeqMaxCapacity == 2
SeqMaxWindow == 2
SeqMaxLimit == 2
SeqMaxTime == 4
SeqMaxCalls == 6
SeqRates == {<<1, 1>>, <<1, 2>>, <<2, 3>>}

\* ---- bounds: the authentication path (AuthSpec) --------------------------
AccessExpiration == 1    \* jwt_expiration_minutes, in clock units
RefreshExpiration == 2   \* refresh_token_exp_days, in clock units
AuthMaxTime == 2         \* the clock stops advancing here
MaxIssued == 2           \* tokens issued in one behaviour

Callers == {1, 2}
\* two keys that hash to the same shard of the map; the other shard is empty
Keys == {2, 4}
Shards == {0, 1}
ShardOf(k) == k % Cardinality(Shards)

\* Arc addresses: every key and every caller can keep one limiter alive
Ids == 1..(Cardinality(Keys) + Cardinality(Callers))
NoId == 0
Nobody == 0
NoShard == -1

Min(a, b) == IF a < b THEN a ELSE b
Max(a, b) == IF a > b THEN a ELSE b
\* ceil(a / b) for b > 0
CeilDiv(a, b) == IF a % b = 0 THEN a \div b ELSE (a \div b) + 1

VARIABLES
    cfg,          \* the store's default_capacity, default_refill_per_sec,
                  \* default_window_size, default_limit and bucket_ttl
    now,          \* Instant::now()
    map,          \* DashMap<Key, Arc<Mutex<RateHybridLimiter>>>: key -> instance
    lim,          \* the RateHybridLimiter behind each Arc
    mutex,        \* holder of each instance's parking_lot Mutex
    pc,           \* position of each caller inside Store::is_allowed
    key,          \* the caller's key argument
    limiter,      \* get_bucket's local `limiter` (constructed on a miss)
    bucket,       \* is_allowed's local `bucket` (the Arc get_bucket returned)
    consumed,     \* outcome of the bucket test inside try_consume
    ret,          \* the decision most recently returned by is_allowed
    spc,          \* position of the eviction task
    sweepNow,     \* the task's `now`, taken once per cycle
    shard,        \* shard the task's iterator is in
    yielded,      \* keys of that shard the iterator already yielded
    keys_to_remove, \* the task's Vec<Key>
    stats,        \* history: per instance, its key and its decisions
    calls,        \* history: number of is_allowed calls started
    admitted,     \* history: time and path of every admission (SeqSpec)
    layout,       \* which App is running: main.rs's, or routes::configure_routes
    redis_pool,   \* AppState.redis_pool is Some
    redis,        \* the Redis keys set with an expiry
    issued,       \* the tokens create_auth_response has handed out
    revoked,      \* history: the refresh tokens of the logouts that returned Ok
    http          \* the request or use-case call being answered, and its outcome

vars == <<cfg, now, map, lim, mutex, pc, key, limiter, bucket, consumed, ret,
          spc, sweepNow, shard, yielded, keys_to_remove, stats, calls, admitted,
          layout, redis_pool, redis, issued, revoked, http>>

callerVars == <<pc, key, limiter, bucket, consumed>>
sweepVars == <<spc, sweepNow, shard, yielded, keys_to_remove>>
authVars == <<layout, redis_pool, redis, issued, revoked, http>>
limiterVars == <<cfg, map, lim, mutex, callerVars, ret, sweepVars, stats, calls,
                 admitted>>

\* ---- TokenBucket ---------------------------------------------------------
RefillNum == cfg.refill_per_sec[1]
RefillDen == cfg.refill_per_sec[2]
\* one token, in the fixed-point unit
TokenUnit == RefillDen
CapacityUnits == cfg.capacity * TokenUnit

TokenBucketNew(t) == [tokens |-> CapacityUnits, last_refill |-> t]

\* mutant: the sum is not capped
TokenBucketRefillUncapped(b, t) ==
    LET elapsed == Max(t - b.last_refill, 0)
    IN  [tokens |-> b.tokens + elapsed * RefillNum, last_refill |-> t]

\* mutant: last_refill is left behind
TokenBucketRefillStale(b, t) ==
    LET elapsed == Max(t - b.last_refill, 0)
    IN  [b EXCEPT !.tokens = Min(@ + elapsed * RefillNum, CapacityUnits)]

TokenBucketRefill(b, t) ==
    LET elapsed == Max(t - b.last_refill, 0)
    IN  IF elapsed > 0
        THEN [tokens |-> Min(b.tokens + elapsed * RefillNum, CapacityUnits),
              last_refill |-> t]
        ELSE b

\* mutant: the comparison made strict
CanConsumeStrict(b, amount) == b.tokens > amount * TokenUnit

\* tokens + 1e-12 >= amount: the epsilon is below the fixed-point resolution
CanConsume(b, amount) == b.tokens >= amount * TokenUnit

\* mutant: the tokens stay in the bucket
SubtractNothing(b, amount) == b

Subtract(b, amount) == [b EXCEPT !.tokens = @ - amount * TokenUnit]

\* ---- SlidingWindow -------------------------------------------------------
\* mutant: the new window starts with one call counted
SlidingWindowNewCounted(t) ==
    [current_window_start |-> t, current_count |-> 1, prev_count |-> 0]

SlidingWindowNew(t) ==
    [current_window_start |-> t, current_count |-> 0, prev_count |-> 0]

Elapsed(w, t) == Max(t - w.current_window_start, 0)

Rollover(w, t) ==
    IF Elapsed(w, t) >= cfg.window_size
    THEN [current_window_start |-> t, current_count |-> 0,
          prev_count |-> w.current_count]
    ELSE w

\* effective * window_size, with `elapsed` as measured before the rollover
EffectiveScaled(w, t) ==
    LET r == Rollover(w, t)
    IN  r.prev_count * (cfg.window_size - Elapsed(w, t))
            + r.current_count * cfg.window_size

\* mutant: a call landing exactly on the limit is admitted
WindowAllowsInclusive(w, t) ==
    EffectiveScaled(w, t) <= cfg.limit * cfg.window_size

WindowAllows(w, t) == EffectiveScaled(w, t) < cfg.limit * cfg.window_size

\* mutant: a rejected call is counted as well
SlidingWindowAllowAlwaysCount(w, t) ==
    [Rollover(w, t) EXCEPT !.current_count = @ + 1]

\* mutant: an admitted call is not counted
SlidingWindowAllowNoCount(w, t) == Rollover(w, t)

SlidingWindowAllow(w, t) ==
    LET r == Rollover(w, t)
    IN  IF WindowAllows(w, t)
        THEN [r EXCEPT !.current_count = @ + 1]
        ELSE r

\* ---- RateHybridLimiter ---------------------------------------------------
\* mutant: the new limiter starts with an empty bucket
RateHybridLimiterNewDrained(t) ==
    [bucket |-> [tokens |-> 0, last_refill |-> t], window |-> SlidingWindowNew(t),
     last_seen |-> t]

RateHybridLimiterNew(t) ==
    [bucket |-> TokenBucketNew(t), window |-> SlidingWindowNew(t), last_seen |-> t]

NoLimiter == [bucket |-> [tokens |-> 0, last_refill |-> 0],
              window |-> [current_window_start |-> 0, current_count |-> 0,
                          prev_count |-> 0],
              last_seen |-> 0]

\* mutant: the quotient truncated instead of rounded up
RetryAfterFloor(remaining) ==
    LET tokens_needed == TokenUnit - remaining
    IN  IF tokens_needed > 0
        THEN Max(tokens_needed \div RefillNum, 1)
        ELSE 1

RetryAfter(remaining) ==
    LET tokens_needed == TokenUnit - remaining
    IN  IF tokens_needed > 0
        THEN Max(CeilDiv(tokens_needed, RefillNum), 1)
        ELSE 1

\* history of an instance: the key it was built for, and the decisions made on
\* it while the clock still shows its creation time, and whether the eviction
\* task removed it from the map, and the seconds since its creation, counted
\* up to window_size
NoStats == [key |-> 0, aged |-> FALSE, bucket |-> 0, window |-> 0, denied |-> 0,
            evicted |-> FALSE, age |-> 0]
NoRet == [allowed |-> FALSE, remaining |-> 0, retry_after |-> {}, limit |-> 0,
          path |-> "none"]

\* RateHybridLimiterStore::new: an empty map, the task asleep
StoreNew ==
    /\ now = 0
    /\ map = [k \in Keys |-> NoId]
    /\ lim = [i \in Ids |-> NoLimiter]
    /\ mutex = [i \in Ids |-> Nobody]
    /\ pc = [c \in Callers |-> "idle"]
    /\ key = [c \in Callers |-> 0]
    /\ limiter = [c \in Callers |-> NoId]
    /\ bucket = [c \in Callers |-> NoId]
    /\ consumed = [c \in Callers |-> FALSE]
    /\ ret = NoRet
    /\ spc = "sleep"
    /\ sweepNow = 0
    /\ shard = NoShard
    /\ yielded = {}
    /\ keys_to_remove = <<>>
    /\ stats = [i \in Ids |-> NoStats]
    /\ calls = 0
    /\ admitted = <<>>

\* no request has been served, no token issued, Redis is empty
NoHttp == [op |-> "none"]
AppNew ==
    /\ redis = {}
    /\ issued = {}
    /\ revoked = {}
    /\ http = NoHttp

\* the limiter on its own: the App is the one of the integration tests
LimiterOnly ==
    /\ layout = "routes"
    /\ redis_pool = TRUE
    /\ AppNew

Init ==
    /\ cfg = [capacity |-> Capacity, refill_per_sec |-> RefillPerSec,
              window_size |-> WindowSize, limit |-> Limit, ttl |-> Ttl]
    /\ StoreNew
    /\ LimiterOnly

SeqInit ==
    /\ cfg \in [capacity : 1..SeqMaxCapacity, refill_per_sec : SeqRates,
                window_size : 1..SeqMaxWindow, limit : 1..SeqMaxLimit, ttl : {Ttl}]
    /\ StoreNew
    /\ LimiterOnly

\* ---- RateHybridLimiterStore: the map and its locks ------------------------
\* the eviction task's iterator holds the read guard of the shard it is in
IterGuard(s) == spc = "scan" /\ shard = s

\* a write lock on a shard (entry, remove) waits for the iterator's read guard
ShardWritable(s) == ~IterGuard(s)

\* mutant: lock() does not wait
MutexFreeAlways(i) == TRUE

MutexFree(i) == mutex[i] = Nobody

\* mutant: the key is ignored, any stored limiter is returned
MapGetAnyKey(m, k) ==
    IF \E j \in Keys : m[j] # NoId
    THEN m[CHOOSE j \in Keys : m[j] # NoId]
    ELSE NoId

\* map.get(key): the stored Arc, if any
MapGet(m, k) == m[k]

\* mutant: the guard is leaked, the mutex stays locked
UnlockForgotten(m, i) == m

\* the MutexGuard `b` is dropped
Unlock(m, i) == [m EXCEPT ![i] = Nobody]

\* mutant: a plain insert after the failed lookup (check, then insert)
MapEntryOverwrite(m, k, l) == [map |-> [m EXCEPT ![k] = l], got |-> l]

\* map.entry(key): Occupied -> the stored Arc, Vacant -> insert `l`
MapEntry(m, k, l) ==
    IF m[k] # NoId
    THEN [map |-> m, got |-> m[k]]
    ELSE [map |-> [m EXCEPT ![k] = l], got |-> l]

InFlight == {c \in Callers : pc[c] # "idle"}

\* an Arc is alive while the map or a caller's local holds it
Alive(i, m, l, b) ==
    \/ \E k \in Keys : m[k] = i
    \/ \E c \in Callers : l[c] = i \/ b[c] = i

\* the address a new Arc gets
NewId == CHOOSE i \in Ids : /\ ~Alive(i, map, limiter, bucket)
                            /\ \A j \in Ids : ~Alive(j, map, limiter, bucket) => i <= j

\* the last Arc of a limiter is dropped: the limiter is freed
Reap(f, none, m, l, b) ==
    [i \in Ids |-> IF Alive(i, m, l, b) THEN f[i] ELSE none]

\* the clock advances
Tick ==
    /\ now' = now + 1
    /\ stats' = [i \in Ids |-> IF stats[i] = NoStats THEN NoStats
                               ELSE [stats[i] EXCEPT !.aged = TRUE, !.bucket = 0,
                                                     !.window = 0, !.denied = 0,
                                                     !.age = Min(@ + 1, cfg.window_size)]]
    /\ UNCHANGED <<authVars, cfg, calls, admitted, map, lim, mutex, callerVars, ret, sweepVars>>

\* Store::is_allowed(key) is called; get_bucket looks the key up and, on a
\* miss, constructs a limiter
Start(c, k) ==
    /\ pc[c] = "idle"
    /\ calls' = calls + 1
    /\ key' = [key EXCEPT ![c] = k]
    /\ \/ /\ MapGet(map, k) # NoId
          /\ bucket' = [bucket EXCEPT ![c] = MapGet(map, k)]
          /\ pc' = [pc EXCEPT ![c] = "lock"]
          /\ UNCHANGED <<lim, limiter, stats>>
       \/ /\ MapGet(map, k) = NoId
          /\ lim' = [lim EXCEPT ![NewId] = RateHybridLimiterNew(now)]
          /\ stats' = [stats EXCEPT ![NewId] = [NoStats EXCEPT !.key = k]]
          /\ limiter' = [limiter EXCEPT ![c] = NewId]
          /\ pc' = [pc EXCEPT ![c] = "entry"]
          /\ UNCHANGED bucket
    /\ UNCHANGED <<authVars, cfg, admitted, now, map, mutex, consumed, ret, sweepVars>>

\* get_bucket's map.entry(key): insert if absent, else take the stored one
Entry(c) ==
    /\ pc[c] = "entry"
    /\ ShardWritable(ShardOf(key[c]))
    /\ LET e == MapEntry(map, key[c], limiter[c])
       IN  /\ map' = e.map
           /\ bucket' = [bucket EXCEPT ![c] = e.got]
    /\ limiter' = [limiter EXCEPT ![c] = NoId]
    \* a limiter that lost the race is dropped with its Arc
    /\ lim' = Reap(lim, NoLimiter, map', limiter', bucket')
    /\ stats' = Reap(stats, NoStats, map', limiter', bucket')
    /\ pc' = [pc EXCEPT ![c] = "lock"]
    /\ UNCHANGED <<authVars, cfg, calls, admitted, now, mutex, key, consumed, ret, sweepVars>>

\* bucket.lock()
Lock(c) ==
    /\ pc[c] = "lock"
    /\ MutexFree(bucket[c])
    /\ mutex' = [mutex EXCEPT ![bucket[c]] = c]
    /\ pc' = [pc EXCEPT ![c] = "cs"]
    /\ UNCHANGED <<authVars, cfg, calls, admitted, now, map, lim, key, limiter, bucket, consumed, ret,
                   sweepVars, stats>>

\* mutant: the call does not touch last_seen
RefillCheckNoTouch(c) ==
    /\ pc[c] = "cs"
    /\ LET l == lim[bucket[c]]
           b == TokenBucketRefill(l.bucket, now)
       IN  /\ lim' = [lim EXCEPT ![bucket[c]] = [l EXCEPT !.bucket = b]]
           /\ consumed' = [consumed EXCEPT ![c] = CanConsume(b, 1)]
    /\ pc' = [pc EXCEPT ![c] = "decide"]
    /\ UNCHANGED <<authVars, cfg, calls, admitted, now, map, mutex, key, limiter, bucket, ret, sweepVars, stats>>

\* RateHybridLimiter::is_allowed, first half: last_seen, refill, bucket test
RefillCheck(c) ==
    /\ pc[c] = "cs"
    /\ LET l == lim[bucket[c]]
           b == TokenBucketRefill(l.bucket, now)
       IN  /\ lim' = [lim EXCEPT ![bucket[c]] = [l EXCEPT !.last_seen = now, !.bucket = b]]
           /\ consumed' = [consumed EXCEPT ![c] = CanConsume(b, 1)]
    /\ pc' = [pc EXCEPT ![c] = "decide"]
    /\ UNCHANGED <<authVars, cfg, calls, admitted, now, map, mutex, key, limiter, bucket, ret, sweepVars, stats>>

\* mutant: a call the bucket admits is counted in the window as well
LimiterDecideCountsAll(l, ok, t) ==
    IF ok
    THEN LET b == Subtract(l.bucket, 1)
         IN  [lim |-> [l EXCEPT !.bucket = b,
                                !.window = SlidingWindowAllow(l.window, t)],
              allowed |-> TRUE,
              remaining |-> b.tokens, retry_after |-> {}, path |-> "bucket"]
    ELSE LET w == SlidingWindowAllow(l.window, t)
         IN  IF WindowAllows(l.window, t)
             THEN [lim |-> [l EXCEPT !.window = w], allowed |-> TRUE,
                   remaining |-> Max(0, l.bucket.tokens), retry_after |-> {},
                   path |-> "window"]
             ELSE [lim |-> [l EXCEPT !.window = w], allowed |-> FALSE,
                   remaining |-> l.bucket.tokens,
                   retry_after |-> {RetryAfter(l.bucket.tokens)},
                   path |-> "denied"]

\* RateHybridLimiter::is_allowed, second half, on limiter l at time t:
\* the limiter afterwards and the returned tuple
LimiterDecide(l, ok, t) ==
    IF ok
    THEN LET b == Subtract(l.bucket, 1)
         IN  [lim |-> [l EXCEPT !.bucket = b], allowed |-> TRUE,
              remaining |-> b.tokens, retry_after |-> {}, path |-> "bucket"]
    ELSE LET w == SlidingWindowAllow(l.window, t)
         IN  IF WindowAllows(l.window, t)
             THEN [lim |-> [l EXCEPT !.window = w], allowed |-> TRUE,
                   remaining |-> Max(0, l.bucket.tokens), retry_after |-> {},
                   path |-> "window"]
             ELSE [lim |-> [l EXCEPT !.window = w], allowed |-> FALSE,
                   remaining |-> l.bucket.tokens,
                   retry_after |-> {RetryAfter(l.bucket.tokens)},
                   path |-> "denied"]

Count(st, path) ==
    CASE st.aged -> st
      [] path = "bucket" -> [st EXCEPT !.bucket = @ + 1]
      [] path = "window" -> [st EXCEPT !.window = @ + 1]
      [] OTHER -> [st EXCEPT !.denied = 1]

\* the decision is made, the guard is dropped and is_allowed returns
Decided(c) ==
    /\ pc[c] = "decide"
    /\ bucket' = [bucket EXCEPT ![c] = NoId]
    /\ LET d == LimiterDecide(lim[bucket[c]], consumed[c], now)
       IN  /\ lim' = Reap([lim EXCEPT ![bucket[c]] = d.lim], NoLimiter,
                           map, limiter, bucket')
           /\ ret' = [allowed |-> d.allowed, remaining |-> d.remaining,
                      retry_after |-> d.retry_after, limit |-> cfg.limit,
                      path |-> d.path]
           /\ stats' = Reap([stats EXCEPT ![bucket[c]] = Count(@, d.path)], NoStats,
                             map, limiter, bucket')
    /\ mutex' = Unlock(mutex, bucket[c])
    /\ pc' = [pc EXCEPT ![c] = "idle"]
    /\ key' = [key EXCEPT ![c] = 0]
    /\ consumed' = [consumed EXCEPT ![c] = FALSE]
    /\ UNCHANGED <<authVars, cfg, calls, now, map, limiter, sweepVars>>

Decide(c) == Decided(c) /\ UNCHANGED admitted

\* the same, with the admission written to the history, at the time its
\* path read the clock: try_consume's refill, or allow()
DecideRecorded(c) ==
    /\ Decided(c)
    /\ admitted' =
          CASE ret'.path = "bucket" ->
                 Append(admitted, [at |-> lim[bucket[c]].bucket.last_refill,
                                   path |-> "bucket"])
            [] ret'.path = "window" ->
                 Append(admitted, [at |-> now, path |-> "window"])
            [] OTHER -> admitted

\* ---- the eviction task ---------------------------------------------------
FirstShard == CHOOSE s \in Shards : \A o \in Shards : s <= o
LastShard == CHOOSE s \in Shards : \A o \in Shards : s >= o

\* entries of shard s the iterator has not yielded yet
Pending(s) == {k \in Keys : ShardOf(k) = s /\ map[k] # NoId /\ k \notin yielded}
NextEntry(s) == CHOOSE k \in Pending(s) : \A o \in Pending(s) : k <= o

\* mutant: no limiter is ever found idle
ExpiredNever(l, t) == FALSE

\* now.duration_since(bl.last_seen) > ttl
Expired(l, t) == Max(t - l.last_seen, 0) > cfg.ttl

\* sleep(interval) is over: take `now` and start iterating the map
SweepWake ==
    /\ spc = "sleep"
    /\ sweepNow' = now
    /\ keys_to_remove' = <<>>
    /\ shard' = FirstShard
    /\ yielded' = {}
    /\ spc' = "scan"
    /\ UNCHANGED <<authVars, cfg, calls, admitted, now, map, lim, mutex, callerVars, ret, stats>>

\* filter_map closure on the next entry: lock it, compare last_seen, unlock
SweepCheck ==
    /\ spc = "scan"
    /\ Pending(shard) # {}
    /\ LET k == NextEntry(shard)
       IN  /\ MutexFree(map[k])
           /\ keys_to_remove' =
                IF Expired(lim[map[k]], sweepNow)
                THEN Append(keys_to_remove, k)
                ELSE keys_to_remove
           /\ yielded' = yielded \cup {k}
    /\ UNCHANGED <<authVars, cfg, calls, admitted, now, map, lim, mutex, callerVars, ret, spc, sweepNow,
                   shard, stats>>

\* the shard is exhausted: its guard is released and the iterator moves on
SweepNextShard ==
    /\ spc = "scan"
    /\ Pending(shard) = {}
    /\ yielded' = {}
    /\ IF shard = LastShard
       THEN spc' = "remove" /\ shard' = NoShard
       ELSE spc' = "scan" /\ shard' = shard + 1
    /\ UNCHANGED <<authVars, cfg, calls, admitted, now, map, lim, mutex, callerVars, ret, sweepNow,
                   keys_to_remove, stats>>

\* map_clone.remove(&k) for the next collected key
SweepRemove ==
    /\ spc = "remove"
    /\ keys_to_remove # <<>>
    /\ ShardWritable(ShardOf(Head(keys_to_remove)))
    /\ map' = [map EXCEPT ![Head(keys_to_remove)] = NoId]
    /\ keys_to_remove' = Tail(keys_to_remove)
    /\ lim' = Reap(lim, NoLimiter, map', limiter, bucket)
    /\ stats' = Reap([i \in Ids |-> IF i = map[Head(keys_to_remove)]
                                    THEN [stats[i] EXCEPT !.evicted = TRUE]
                                    ELSE stats[i]],
                     NoStats, map', limiter, bucket)
    /\ UNCHANGED <<authVars, cfg, calls, admitted, now, mutex, callerVars, ret, spc, sweepNow, shard, yielded>>

\* all collected keys are removed: back to sleep(interval)
SweepSleep ==
    /\ spc = "remove"
    /\ keys_to_remove = <<>>
    /\ spc' = "sleep"
    /\ sweepNow' = 0
    /\ UNCHANGED <<authVars, cfg, calls, admitted, now, map, lim, mutex, callerVars, ret, shard, yielded,
                   keys_to_remove, stats>>

Sweep == SweepWake \/ SweepCheck \/ SweepNextShard \/ SweepRemove \/ SweepSleep

Caller(c) ==
    \/ \E k \in Keys : calls < MaxCalls /\ Start(c, k)
    \/ Entry(c)
    \/ Lock(c)
    \/ RefillCheck(c)
    \/ Decide(c)

Next ==
    \/ now < MaxTime /\ Tick
    \/ \E c \in Callers : Caller(c)
    \/ Sweep

Spec == Init /\ [][Next]_vars

\* one caller, one key, no eviction
SeqCaller == CHOOSE c \in Callers : \A o \in Callers : c <= o
SeqKey == CHOOSE k \in Keys : \A o \in Keys : k <= o

SeqNext ==
    \/ now < SeqMaxTime /\ Tick
    \/ calls < SeqMaxCalls /\ Start(SeqCaller, SeqKey)
    \/ Entry(SeqCaller)
    \/ Lock(SeqCaller)
    \/ RefillCheck(SeqCaller)
    \/ DecideRecorded(SeqCaller)

SeqSpec == SeqInit /\ [][SeqNext]_vars

\* the same, over the limits from 0 on
WindowInit ==
    /\ cfg \in [capacity : 1..SeqMaxCapacity, refill_per_sec : SeqRates,
                window_size : 1..SeqMaxWindow, limit : 0..SeqMaxLimit, ttl : {Ttl}]
    /\ StoreNew
    /\ LimiterOnly

WindowSpec == WindowInit /\ [][SeqNext]_vars

\* ---- fairness ------------------------------------------------------------
\* Callers run on scheduled threads and the task on the tokio runtime, so a
\* process whose next step is possible takes it.  The next step of a process
\* that waits for a lock is possible again and again, not continuously, and it
\* is taken all the same (SF): parking_lot's Mutex hands the lock over to a
\* waiter (eventual fairness), and the task gives up the shard guard at the end
\* of every scan and then sleeps.
CallerStep(c) == Entry(c) \/ Lock(c) \/ RefillCheck(c) \/ Decide(c)
SweepStep == SweepCheck \/ SweepNextShard \/ SweepRemove \/ SweepSleep

Fairness ==
    /\ \A c \in Callers : SF_vars(CallerStep(c))
    /\ SF_vars(SweepStep)

\* the store under fair scheduling, with fewer calls
LiveNext ==
    \/ now < MaxTime /\ Tick
    \/ \E c \in Callers, k \in Keys : calls < LiveMaxCalls /\ Start(c, k)
    \/ \E c \in Callers : CallerStep(c)
    \/ Sweep

FairSpec == Init /\ [][LiveNext]_vars /\ Fairness

\* the same, with the task's sleep(interval) always ending: the tokio timer
\* fires, so the task starts cycle after cycle
EvictSpec == Init /\ [][LiveNext]_vars /\ Fairness /\ WF_vars(SweepWake)

\* ---- authentication: tokens ----------------------------------------------
Users == {"root", "guest"}
\* users.is_admin
IsAdmin(u) == u = "root"

\* a JWT is identified by what it was signed over; the signing key is the one
\* of its type (jwt_secret or refresh_token_secret)
AccessToken(u, t) ==
    [type |-> "access", sub |-> u, admin |-> IsAdmin(u),
     exp |-> t + AccessExpiration, iat |-> t]
RefreshJwt(u, t) ==
    [type |-> "refresh", sub |-> u, admin |-> FALSE,
     exp |-> t + RefreshExpiration, iat |-> t]
\* a string that is no JWT of this service
Garbage == [type |-> "garbage", sub |-> "", admin |-> FALSE, exp |-> 0, iat |-> 0]
\* the empty string
Blank == [type |-> "blank", sub |-> "", admin |-> FALSE, exp |-> 0, iat |-> 0]

Ok(v) == [ok |-> TRUE, err |-> "", value |-> v]
Err(e) == [ok |-> FALSE, err |-> e, value |-> Blank]

\* decode with the access key and validate_exp (the library's leeway is not
\* modelled: a token is expired once exp is in the past)
DecodeJwt(tok, t) ==
    IF tok.type # "access" THEN Err("InvalidToken")
    ELSE IF tok.exp < t THEN Err("TokenExpired")
    ELSE Ok(tok)

\* the same with the refresh key
DecodeRefreshJwt(tok, t) ==
    IF tok.type # "refresh" THEN Err("InvalidToken")
    ELSE IF tok.exp < t THEN Err("TokenExpired")
    ELSE Ok(tok)

\* AuthError::status_code
StatusCode(e) ==
    CASE e \in {"InvalidToken", "TokenExpired", "RevokedToken", "WrongCredentials",
                "AuthenticationFailed", "TokenRevoked"} -> 401
      [] e \in {"MissingCredentials", "MissingAuthHeader", "TokenUserMismatch",
                "InvalidUserId", "RedisNotConfigured", "InvalidTokenType",
                "RedisOperation"} -> 400
      [] e = "Forbidden" -> 403
      [] OTHER -> 500

\* ---- authentication: Redis ----------------------------------------------
ACCESS_DENY_PREFIX == "access_deny"
REFRESH_DENY_PREFIX == "refresh_deny"

\* format!("{}:{}", prefix, token), and the bare token used as a key
PrefixedKey(prefix, tok) == <<prefix, tok>>
BareKey(tok) == <<tok>>

\* EXISTS key: the key was set and has not expired
Exists(k, t) == \E e \in redis : e.key = k /\ e.until > t
\* SETEX key ttl
SetEx(store, k, ttl, t) ==
    {e \in store : e.key # k} \cup {[key |-> k, until |-> t + ttl]}

\* ---- authentication: the middleware --------------------------------------
\* a path is the sequence of its segments: "/admin/health" is <<"admin", "health">>
ApiV1 == <<"api", "v1">>
Paths ==
    { <<>>,
      ApiV1 \o <<"auth", "login">>,
      ApiV1 \o <<"users", "me">>,
      ApiV1 \o <<"admin", "dashboard">>,
      ApiV1 \o <<"admin", "admin", "dashboard">>,
      <<"admin">>, <<"admin", "admin", "dashboard">> }
Methods == {"GET", "POST", "OPTIONS"}
Schemes == {"Bearer", "bearer", "Basic"}

\* ASCII lower case of an authorization scheme
Lower(x) == CASE x = "Bearer" -> "bearer" [] x = "Basic" -> "basic" [] OTHER -> x

\* the Authorization header values a client can send; None is {}
Headers == {{}} \cup {{[scheme |-> x, token |-> tok]} :
                        x \in Schemes, tok \in issued \cup {Garbage, Blank}}

\* extract_token: the text after a case-insensitive "bearer " prefix, if any
ExtractToken(authorization) ==
    {h.token : h \in {x \in authorization :
                          x.token # Blank /\ Lower(x.scheme) = "bearer"}}

IsPublicRoute(path, method) ==
    \/ method = "OPTIONS"
    \/ <<path, method>> \in
          { << <<>>, "GET" >>,
            << ApiV1 \o <<"auth", "refresh">>, "POST" >>,
            << ApiV1 \o <<"auth", "login">>, "POST" >>,
            << ApiV1 \o <<"auth", "register">>, "POST" >> }

\* path.starts_with("/admin/") || path == "/admin"
IsAdminRoute(path) == Len(path) >= 1 /\ path[1] = "admin"

IsAuthorized(path, claims) ==
    IF IsAdminRoute(path) THEN claims.admin ELSE TRUE

\* what the middleware does with a request: forward it to the wrapped
\* service, with the claims it put into the extensions, or answer it
Forward(claims) ==
    [forwarded |-> TRUE, status |-> 0, error |-> <<>>, claims |-> claims]
Respond(e, msg) ==
    [forwarded |-> FALSE, status |-> StatusCode(e), error |-> msg, claims |-> {}]

\* Display of the AuthError variants the middleware and extractors return
Display(e) ==
    CASE e = "MissingCredentials" -> <<"Missing credentials">>
      [] e = "InvalidToken" -> <<"Invalid token">>
      [] e = "TokenExpired" -> <<"Token expired">>
      [] OTHER -> <<"Redis operation failed: ">>
Forbidden(msg) == <<"Forbidden: ">> \o msg

\* AuthMiddlewareService::call at time t, with Redis reachable or not
Middleware(path, method, authorization, t, up) ==
    IF IsPublicRoute(path, method) THEN Forward({})
    ELSE IF ExtractToken(authorization) = {}
    THEN Respond("MissingCredentials", Display("MissingCredentials"))
    ELSE LET token == CHOOSE tok \in ExtractToken(authorization) : TRUE
             decoded == DecodeJwt(token, t)
         IN  IF ~decoded.ok THEN Respond(decoded.err, Display(decoded.err))
             ELSE IF redis_pool /\ ~up
             THEN Respond("RedisOperation", Display("RedisOperation"))
             ELSE IF redis_pool /\ Exists(PrefixedKey(ACCESS_DENY_PREFIX, token), t)
             THEN Respond("TokenExpired", Display("TokenExpired"))
             ELSE IF ~IsAuthorized(path, decoded.value)
             THEN Respond("Forbidden",
                          Forbidden(<<"Admin access required", ". User ",
                                      decoded.value.sub, " is not an admin">>))
             ELSE Forward({decoded.value})

\* ---- authentication: routes, extractors, handlers ------------------------
\* the handler a forwarded request is routed to; "none" is actix's 404 and
\* "not_allowed" the 405 of a resource that has no route for the method
Route(path, method) ==
    IF layout = "routes"
    THEN CASE path = <<>> /\ method = "GET" -> "home"
           [] path = ApiV1 \o <<"auth", "login">> /\ method = "POST" -> "login"
           [] path = ApiV1 \o <<"users", "me">> ->
                  IF method = "GET" THEN "me" ELSE "not_allowed"
           [] path = ApiV1 \o <<"admin", "admin", "dashboard">> /\ method = "GET" ->
                  "admin_dashboard"
           [] OTHER -> "none"
    ELSE CASE path = <<>> /\ method = "GET" -> "home"
           [] path = <<"admin", "admin", "dashboard">> /\ method = "GET" ->
                  "admin_dashboard"
           [] OTHER -> "none"

Extracted == [ok |-> TRUE, status |-> 0, error |-> <<>>]
Rejected(e, msg) == [ok |-> FALSE, status |-> StatusCode(e), error |-> msg]

\* AuthClaims::from_request on the claims found in the request extensions
AuthClaimsFromRequest(claims) ==
    IF claims # {} THEN Extracted
    ELSE Rejected("MissingCredentials", Display("MissingCredentials"))

\* mutant: any claims are taken for an administrator's
AdminClaimsAnyUser(claims) ==
    IF claims # {} THEN Extracted
    ELSE Rejected("MissingCredentials", Display("MissingCredentials"))

\* AdminClaims::from_request
AdminClaimsFromRequest(claims) ==
    IF \E c \in claims : c.admin THEN Extracted
    ELSE IF claims # {}
    THEN Rejected("Forbidden", Forbidden(<<"Admin access required">>))
    ELSE Rejected("MissingCredentials", Display("MissingCredentials"))

Ran(status) == [ran |-> TRUE, status |-> status, error |-> <<>>]
NotRan(status, msg) == [ran |-> FALSE, status |-> status, error |-> msg]

\* the routed service on a request without a body: the extractors, then the
\* handler's body (the database has the user of the claims)
Handler(h, claims) ==
    CASE h = "home" -> Ran(200)
      [] h = "login" -> NotRan(400, <<"Json deserialize error: ">>)
      [] h = "me" ->
             LET e == AuthClaimsFromRequest(claims)
             IN  IF ~e.ok THEN NotRan(e.status, e.error)
                 ELSE Ran(200)
      [] h = "admin_dashboard" ->
             LET e == AdminClaimsFromRequest(claims)
             IN  IF e.ok THEN Ran(200) ELSE NotRan(e.status, e.error)
      [] h = "not_allowed" -> NotRan(405, <<>>)
      [] OTHER -> NotRan(404, <<>>)

\* one HTTP request through AuthMiddleware and the router
Call(path, method, authorization, up) ==
    LET m == Middleware(path, method, authorization, now, up)
        h == Route(path, method)
        r == Handler(h, m.claims)
    IN  /\ http = NoHttp
        /\ http' = [op |-> "call", path |-> path, method |-> method,
                    authorization |-> authorization, up |-> up, at |-> now,
                    forwarded |-> m.forwarded,
                    handler |-> IF m.forwarded THEN h ELSE "none",
                    ran |-> m.forwarded /\ r.ran,
                    status |-> IF m.forwarded THEN r.status ELSE m.status,
                    error |-> IF m.forwarded THEN r.error ELSE m.error]
        /\ UNCHANGED <<layout, redis_pool, redis, issued, revoked, now, limiterVars>>

\* ---- authentication: AuthHandler ----------------------------------------
\* create_auth_response: an access and a refresh token made at time t
CreateAuthResponse(u, t) == {AccessToken(u, t), RefreshJwt(u, t)}

NoPair == {}
Issued(pair) == [ok |-> TRUE, err |-> "", pair |-> pair]
Refused(e) == [ok |-> FALSE, err |-> e, pair |-> NoPair]

\* AuthHandler::login; valid says that the user exists and the password is
\* the user's
Login(u, valid) ==
    LET r == IF valid THEN Issued(CreateAuthResponse(u, now))
             ELSE Refused("WrongCredentials")
    IN  /\ http = NoHttp
        /\ Cardinality(issued \cup r.pair) <= MaxIssued
        /\ issued' = issued \cup r.pair
        /\ http' = [op |-> "login", sub |-> u, at |-> now, ok |-> r.ok,
                    err |-> r.err, pair |-> r.pair]
        /\ UNCHANGED <<layout, redis_pool, redis, revoked, now, limiterVars>>

\* the key refresh_token hands to is_token_invalid: the token itself
RefreshLookupKey(token) == BareKey(token)

\* AuthHandler::refresh_token at time t
RefreshToken(token, t, up, found) ==
    IF token = Blank THEN Refused("InvalidToken")
    ELSE LET decoded == DecodeRefreshJwt(token, t)
         IN  IF ~decoded.ok THEN Refused(decoded.err)
             ELSE IF decoded.value.type # "refresh" THEN Refused("InvalidTokenType")
             ELSE IF decoded.value.exp < t THEN Refused("TokenExpired")
             ELSE IF ~redis_pool THEN Refused("TokenCreation")
             ELSE IF ~up THEN Refused("RedisOperation")
             ELSE IF Exists(RefreshLookupKey(token), t) THEN Refused("RevokedToken")
             ELSE IF ~found THEN Refused("WrongCredentials")
             ELSE Issued(CreateAuthResponse(decoded.value.sub, t))

Refresh(token, up, found) ==
    LET r == RefreshToken(token, now, up, found)
    IN  /\ http = NoHttp
        /\ Cardinality(issued \cup r.pair) <= MaxIssued
        /\ issued' = issued \cup r.pair
        /\ http' = [op |-> "refresh", token |-> token, at |-> now, ok |-> r.ok,
                    err |-> r.err, pair |-> r.pair]
        /\ UNCHANGED <<layout, redis_pool, redis, revoked, now, limiterVars>>

Written(store) == [ok |-> TRUE, err |-> "", redis |-> store]
NotWritten(e, store) == [ok |-> FALSE, err |-> e, redis |-> store]

\* RedisService::revoke_token on the store
RevokeToken(store, prefix, token, ttl_seconds, t, up) ==
    IF ttl_seconds = 0 THEN Written(store)
    ELSE IF ~redis_pool THEN NotWritten("RedisNotConfigured", store)
    ELSE IF ~up THEN NotWritten("RedisConnection", store)
    ELSE Written(SetEx(store, PrefixedKey(prefix, token), ttl_seconds, t))

\* JwtService::revoke_refresh_token
RevokeRefreshToken(store, token, t, up) ==
    LET decoded == DecodeRefreshJwt(token, t)
    IN  IF ~decoded.ok THEN NotWritten(decoded.err, store)
        ELSE IF decoded.value.exp <= t THEN NotWritten("InvalidToken", store)
        ELSE RevokeToken(store, REFRESH_DENY_PREFIX, token, decoded.value.exp - t, t, up)

\* JwtService::blacklist_access_token
BlacklistAccessToken(store, token, t, up) ==
    LET decoded == DecodeJwt(token, t)
    IN  IF ~decoded.ok THEN NotWritten(decoded.err, store)
        ELSE IF decoded.value.exp <= t THEN NotWritten("InvalidToken", store)
        ELSE RevokeToken(store, ACCESS_DENY_PREFIX, token, decoded.value.exp - t, t, up)

\* AuthHandler::logout at time t; up1 and up2 say whether Redis answers the
\* first and the second write
LogoutTokens(refresh_token, access_token, t, up1, up2) ==
    LET access_claims == DecodeJwt(access_token, t)
        refresh_claims == DecodeRefreshJwt(refresh_token, t)
    IN  IF ~access_claims.ok THEN NotWritten(access_claims.err, redis)
        ELSE IF ~refresh_claims.ok THEN NotWritten(refresh_claims.err, redis)
        ELSE IF access_claims.value.sub # refresh_claims.value.sub
        THEN NotWritten("TokenUserMismatch", redis)
        ELSE LET first == RevokeRefreshToken(redis, refresh_token, t, up1)
             IN  IF ~first.ok THEN first
                 ELSE BlacklistAccessToken(first.redis, access_token, t, up2)

Logout(refresh_token, access_token, up1, up2) ==
    LET r == LogoutTokens(refresh_token, access_token, now, up1, up2)
    IN  /\ http = NoHttp
        /\ redis' = r.redis
        /\ revoked' = IF r.ok THEN revoked \cup {refresh_token} ELSE revoked
        /\ http' = [op |-> "logout", refresh |-> refresh_token,
                    access |-> access_token, at |-> now, ok |-> r.ok, err |-> r.err]
        /\ UNCHANGED <<layout, redis_pool, issued, now, limiterVars>>

\* the response, or the use case's result, goes out and the request is over
Send ==
    /\ http # NoHttp
    /\ http' = NoHttp
    /\ UNCHANGED <<layout, redis_pool, redis, issued, revoked, now, limiterVars>>

\* the App of main.rs or the one assembled from configure_routes, with or
\* without a Redis pool, before any request
AuthInit ==
    /\ cfg = [capacity |-> Capacity, refill_per_sec |-> RefillPerSec,
              window_size |-> WindowSize, limit |-> Limit, ttl |-> Ttl]
    /\ StoreNew
    /\ layout \in {"main", "routes"}
    /\ redis_pool \in BOOLEAN
    /\ AppNew

Presented == issued \cup {Garbage, Blank}

AuthNext ==
    \/ now < AuthMaxTime /\ Tick
    \/ \E u \in Users, valid \in BOOLEAN : Login(u, valid)
    \/ \E path \in Paths, method \in Methods, authorization \in Headers,
          up \in BOOLEAN :
            Call(path, method, authorization, up)
    \/ \E token \in Presented, up \in BOOLEAN, found \in BOOLEAN :
            Refresh(token, up, found)
    \/ \E refresh_token \in Presented, access_token \in Presented,
          up1 \in BOOLEAN, up2 \in BOOLEAN :
            Logout(refresh_token, access_token, up1, up2)
    \/ Send

AuthSpec == AuthInit /\ [][AuthNext]_vars

\* ---- properties ----------------------------------------------------------
\* caller c holds an Arc returned by get_bucket
Holding(c) == pc[c] \in {"lock", "cs", "decide"}
\* caller c is between bucket.lock() and the drop of the guard
InCS(c) == pc[c] \in {"cs", "decide"}
\* instance i exists and no time has passed since it was constructed
Fresh(i) == stats[i].key # 0 /\ ~stats[i].aged

\* C1: no double-spend.  While no time elapses on a limiter that started with
\* N = capacity whole tokens, every bucket admission has taken one whole token
\* (the tokens left are never negative), and a call falls through to the
\* window or is denied only once all N tokens are spent: of K > N calls,
\* interleaved in any way, exactly N are admitted by the bucket.
NoDoubleSpend ==
    \A i \in Ids :
        /\ lim[i].bucket.tokens >= 0
        /\ Fresh(i) =>
              /\ lim[i].bucket.tokens + stats[i].bucket * TokenUnit = CapacityUnits
              /\ stats[i].window + stats[i].denied > 0 => stats[i].bucket = cfg.capacity

\* two calls on one limiter race for its last token
WitnessLastTokenRace ==
    \E c1, c2 \in Callers :
        /\ c1 # c2
        /\ pc[c1] = "decide" /\ consumed[c1]
        /\ pc[c2] = "lock" /\ bucket[c2] = bucket[c1]
        /\ Fresh(bucket[c1])
        /\ lim[bucket[c1]].bucket.tokens = TokenUnit

\* C2: race-free get-or-create.  Every Arc a caller got from get_bucket is the
\* one stored in the map under the caller's key, unless the eviction task has
\* removed it since: a limiter built by a caller that lost the insert race is
\* never the one a caller locks.
RaceFreeGetOrCreate ==
    \A c \in Callers :
        Holding(c) =>
            \/ map[key[c]] = bucket[c]
            \/ stats[bucket[c]].evicted

\* a caller that built its own limiter finds the key inserted by the other one
WitnessLostInsertRace ==
    \E c1, c2 \in Callers :
        /\ c1 # c2
        /\ pc[c2] = "entry" /\ limiter[c2] # NoId
        /\ Holding(c1) /\ key[c1] = key[c2]
        /\ map[key[c2]] = bucket[c1]
        /\ limiter[c2] # bucket[c1]

\* after the race both callers hold the stored limiter
WitnessConverged ==
    \E c1, c2 \in Callers :
        /\ c1 # c2
        /\ Holding(c1) /\ Holding(c2)
        /\ key[c1] = key[c2]
        /\ bucket[c1] = bucket[c2]
        /\ map[key[c1]] = bucket[c1]
        /\ Fresh(bucket[c1])
        /\ stats[bucket[c1]].bucket = 0

\* C3: at most one is_allowed call is inside the critical section for a given
\* key, in every reachable state.
SerializedPerKey ==
    \A c1, c2 \in Callers :
        (c1 # c2 /\ InCS(c1) /\ InCS(c2)) => key[c1] # key[c2]

\* what does hold: one call at a time inside the critical section of one limiter
SerializedPerLimiter ==
    \A c1, c2 \in Callers :
        (c1 # c2 /\ InCS(c1) /\ InCS(c2)) => bucket[c1] # bucket[c2]

\* C4: no deadlock, and every started call completes.
CallerBlocked(c) ==
    \/ pc[c] = "lock" /\ ~MutexFree(bucket[c])
    \/ pc[c] = "entry" /\ ~ShardWritable(ShardOf(key[c]))
SweepBlocked ==
    spc = "scan" /\ Pending(shard) # {} /\ ~MutexFree(map[NextEntry(shard)])
SweepRunning == spc # "sleep"

\* whenever a call is in flight or a sweep is under way, one of them can step
NoDeadlock ==
    (InFlight # {} \/ SweepRunning) =>
        \/ \E c \in InFlight : ~CallerBlocked(c)
        \/ SweepRunning /\ ~SweepBlocked

\* C4: in the system of callers and eviction task no deadlock is reachable,
\* and under fair scheduling every started is_allowed call returns.
AlwaysReturns ==
    /\ []NoDeadlock
    /\ \A c \in Callers : (pc[c] # "idle") ~> (pc[c] = "idle")

\* a caller waits for a limiter's lock while the task, holding the shard's
\* guard, waits for the same lock
WitnessContention ==
    \E c \in Callers :
        /\ pc[c] = "lock" /\ ~MutexFree(bucket[c])
        /\ SweepBlocked
        /\ map[NextEntry(shard)] = bucket[c]

\* C5: keys are isolated.  No limiter is reachable from two keys (through the
\* map or through a caller's Arc), and a step of a call for key A leaves the
\* limiter of every other key as it was.
NoSharing ==
    /\ \A k \in Keys : map[k] # NoId => stats[map[k]].key = k
    /\ \A c \in Callers : Holding(c) => stats[bucket[c]].key = key[c]

CallKey(c) == IF key[c] # 0 THEN key[c] ELSE key'[c]

IsolatedStep ==
    /\ NoSharing'
    /\ \A c \in Callers :
          pc'[c] # pc[c] =>
              \A i \in Ids :
                  (stats[i].key # 0 /\ stats[i].key # CallKey(c)) => lim'[i] = lim[i]

KeysIsolated == [][IsolatedStep]_vars

\* a call on one key is decided while another key's limiter exists
WitnessTwoKeys ==
    \E k1, k2 \in Keys :
        /\ k1 # k2
        /\ map[k1] # NoId /\ map[k2] # NoId
        /\ stats[map[k1]].bucket > 0
        /\ stats[map[k2]].bucket > 0

\* C6: a caller for key B never waits, through the task's shard guard, for a
\* lock on another key A that some caller holds.
NoWaitOnUnrelatedKey ==
    \A cb \in Callers :
        (pc[cb] = "entry" /\ ~ShardWritable(ShardOf(key[cb]))) =>
            ~ /\ SweepBlocked
              /\ stats[map[NextEntry(shard)]].key # key[cb]
              /\ \E ca \in Callers : InCS(ca) /\ bucket[ca] = map[NextEntry(shard)]

\* ---- one limiter, one caller (SeqSpec) -----------------------------------
\* the limiter of the one key, once it exists
TheId == map[SeqKey]
\* decisions returned so far
Decisions == calls - Cardinality(InFlight)

\* admissions by one of `paths` at a time in [a, b)
AdmittedIn(a, b, paths) ==
    Cardinality({j \in DOMAIN admitted :
                    /\ admitted[j].at >= a
                    /\ admitted[j].at < b
                    /\ admitted[j].path \in paths})

BurstScenario ==
    (TheId # NoId /\ Fresh(TheId)) =>
        LET n == Decisions
            c == cfg.capacity
            l == cfg.limit
        IN  /\ stats[TheId].bucket = Min(n, c)
            /\ stats[TheId].window = Min(Max(n - c, 0), l)
            /\ stats[TheId].denied = 1 <=> n > c + l
            /\ lim[TheId].bucket.tokens = (c - Min(n, c)) * TokenUnit
            /\ (0 < n /\ n <= c) => (ret.allowed /\ ret.path = "bucket")
            /\ (c < n /\ n <= c + l) => (ret.allowed /\ ret.path = "window")
            /\ n > c + l =>
                  /\ ~ret.allowed
                  /\ ret.retry_after # {}
                  /\ \A r \in ret.retry_after : r >= 1

\* the call after capacity + limit admissions has been denied
WitnessBurstDenied ==
    /\ TheId # NoId /\ Fresh(TheId)
    /\ cfg.capacity >= 2 /\ cfg.limit >= 2
    /\ Decisions = cfg.capacity + cfg.limit + 1
    /\ ~ret.allowed

\* C9: retry hint.  retry_after is None exactly when the call is allowed; a
\* denial carries Some(r) with r = max(1, ceil((1 - remaining) / refill_per_sec)),
\* that is, r >= 1 is the least such number of seconds whose refill covers the
\* tokens missing.
RetryHint ==
    ret.path # "none" =>
        /\ ret.allowed <=> ret.retry_after = {}
        /\ ~ret.allowed =>
              /\ Cardinality(ret.retry_after) = 1
              /\ \A r \in ret.retry_after :
                    LET needed == TokenUnit - ret.remaining
                    IN  /\ r >= 1
                        /\ r * RefillNum >= needed
                        /\ r > 1 => (r - 1) * RefillNum < needed

\* a denial whose hint is more than the minimum of one second
WitnessRetryTwo ==
    /\ ~ret.allowed
    /\ ret.path = "denied"
    /\ ret.retry_after = {2}

\* C10: hybrid fallback.  A call that finds less than one token in the bucket
\* and the window's effective count below the limit returns allowed = true
\* with retry_after = None and remaining = max(0, tokens), and the window's
\* current_count (0 after a rollover) has grown by one.
FallbackStep ==
    \A c \in Callers :
        LET l == lim[bucket[c]]
            rolled == now - l.window.current_window_start >= cfg.window_size
        IN  ( /\ pc[c] = "decide" /\ pc'[c] = "idle"
              /\ ~consumed[c]
              /\ l.bucket.tokens < TokenUnit
              /\ WindowAllows(l.window, now) )
            => /\ ret'.allowed
               /\ ret'.retry_after = {}
               /\ ret'.remaining = Max(0, l.bucket.tokens)
               /\ lim'[bucket[c]].window.current_count
                     = (IF rolled THEN 0 ELSE l.window.current_count) + 1

HybridFallback == [][FallbackStep]_vars

\* the bucket is empty and the last call was admitted by the window
WitnessFallback ==
    /\ TheId # NoId
    /\ ret.allowed /\ ret.path = "window" /\ ret.retry_after = {}
    /\ lim[TheId].bucket.tokens < TokenUnit
    /\ lim[TheId].window.current_count >= 1
    /\ pc[SeqCaller] = "idle"

\* ---- eviction -----------------------------------------------------------
\* no is_allowed call for key k is under way
NoCallOn(k) == \A c \in Callers : key[c] # k
\* the task has removed every key it collected in this cycle
CycleDone == spc = "remove" /\ keys_to_remove = <<>>
\* key k is stored and its limiter was last used more than bucket_ttl before t
IdleSince(k, t) ==
    /\ map[k] # NoId
    /\ NoCallOn(k)
    /\ t - lim[map[k]].last_seen > cfg.ttl

NoIdleKeyAfterCycle ==
    CycleDone => \A k \in Keys : ~IdleSince(k, sweepNow)

\* C11: idle eviction.  A key that has had no is_allowed call for longer than
\* bucket_ttl when a sweep cycle starts, and gets none during the cycle, is
\* absent from the map when the cycle completes; and with the task waking up
\* again and again, every stored key that is idle for longer than bucket_ttl
\* is eventually removed, unless a call for it arrives first.
IdleEviction ==
    /\ []NoIdleKeyAfterCycle
    /\ \A k \in Keys : IdleSince(k, now) ~> (map[k] = NoId \/ ~NoCallOn(k))

\* a cycle that started after bucket_ttl had passed has completed: keys were
\* used, no call is under way and no key is left in the map
WitnessIdleEvicted ==
    /\ CycleDone
    /\ sweepNow > cfg.ttl
    /\ calls > 0
    /\ InFlight = {}
    /\ \A k \in Keys : map[k] = NoId

\* ---- creation -----------------------------------------------------------
\* limiter l is as the store's default parameters make it
AsConstructed(l) ==
    /\ l.bucket.tokens = cfg.capacity * TokenUnit
    /\ l.window.current_count = 0
    /\ l.window.prev_count = 0

FreshOnCreationStep ==
    \* get_bucket misses: the limiter it constructs
    /\ \A c \in Callers :
          (pc[c] = "idle" /\ pc'[c] = "entry") => AsConstructed(lim'[limiter'[c]])
    \* a key enters the map: the limiter stored for it
    /\ \A k \in Keys :
          (map[k] = NoId /\ map'[k] # NoId) =>
              /\ AsConstructed(lim'[map'[k]])
              /\ stats'[map'[k]].key = k
              /\ ~stats'[map'[k]].evicted
              /\ \A c \in Callers : bucket[c] # map'[k]

\* C12: fresh limiter on (re)creation.  A call for a key that is not in the map
\* constructs a limiter with tokens = capacity, current_count = 0 and
\* prev_count = 0, and the limiter that enters the map for the key is such a
\* limiter, never used and never evicted, whatever state the key's previous
\* limiter was in.
FreshOnCreation == [][FreshOnCreationStep]_vars

\* a key is stored again with a full limiter while its previous limiter,
\* evicted with tokens spent, is still held by a caller
WitnessRecreatedFull ==
    \E k \in Keys, i \in Ids :
        /\ stats[i].key = k /\ stats[i].evicted
        /\ lim[i].bucket.tokens < CapacityUnits
        /\ map[k] # NoId /\ map[k] # i
        /\ AsConstructed(lim[map[k]])

\* ---- TokenBucket alone --------------------------------------------------
\* C13: a freshly created bucket of capacity C, with no time elapsing, admits
\* exactly C try_consume(1) calls and rejects the (C+1)-th: the call made
\* after n decided ones succeeds exactly when n < C, and the bucket holds C
\* less the admitted ones.
FreshBucketAdmitsCapacity ==
    (TheId # NoId /\ Fresh(TheId)) =>
        /\ pc[SeqCaller] = "decide" => (consumed[SeqCaller] <=> Decisions < cfg.capacity)
        /\ lim[TheId].bucket.tokens
              = (cfg.capacity - Min(Decisions, cfg.capacity)) * TokenUnit

\* the (C+1)-th try_consume on a fresh bucket has just failed
WitnessBucketExhausted ==
    /\ TheId # NoId /\ Fresh(TheId)
    /\ cfg.capacity >= 2
    /\ Decisions = cfg.capacity
    /\ pc[SeqCaller] = "decide" /\ ~consumed[SeqCaller]

RefillLawStep ==
    \A c \in Callers :
        (pc[c] = "cs" /\ pc'[c] = "decide") =>
            LET before == lim[bucket[c]].bucket
                after == lim'[bucket[c]].bucket
                T == now - before.last_refill
                sum == before.tokens + T * RefillNum
            IN  /\ T >= 0
                /\ after.tokens = IF sum < CapacityUnits THEN sum ELSE CapacityUnits
                /\ after.last_refill = now
                /\ after.tokens >= before.tokens
                /\ T = 0 => after.tokens = before.tokens

\* C14: refill law.  refill() applied T seconds after the last one leaves
\* tokens = min(capacity, previous tokens + T * refill_per_sec) and
\* last_refill = now; with T = 0 the tokens are unchanged, and refill never
\* decreases them.
RefillLaw == [][RefillLawStep]_vars

\* a refill over T > 0 seconds has left a fractional amount below capacity
WitnessPartialRefill ==
    /\ pc[SeqCaller] = "decide"
    /\ now > 0
    /\ lim[TheId].bucket.last_refill = now
    /\ lim[TheId].bucket.tokens % TokenUnit # 0
    /\ lim[TheId].bucket.tokens < CapacityUnits

InFirstWindow(i) == stats[i].key # 0 /\ stats[i].age < cfg.window_size

\* the window is still the one it was created with, and it has counted the
\* calls it admitted, at most limit of them
FreshWindowCounts ==
    (TheId # NoId /\ InFirstWindow(TheId)) =>
        LET w == lim[TheId].window
        IN  /\ w.prev_count = 0
            /\ w.current_window_start = now - stats[TheId].age
            /\ w.current_count = AdmittedIn(0, now + 1, {"window"})
            /\ w.current_count <= cfg.limit

FreshWindowStep ==
    /\ FreshWindowCounts'
    \* allow() is called: it admits while fewer than limit calls are counted
    /\ \A c \in Callers :
          ( /\ pc[c] = "decide" /\ pc'[c] = "idle"
            /\ ~consumed[c]
            /\ InFirstWindow(bucket[c]) )
          => (ret'.allowed <=> lim[bucket[c]].window.current_count < cfg.limit)

\* C16: a fresh window with limit L admits exactly L allow() calls made within
\* window_size of its creation and rejects every further one made within that
\* window: such a call is admitted exactly when fewer than L were admitted
\* before it.
FreshWindowAdmitsLimit == [][FreshWindowStep]_vars

\* one second into a window of two, the call after limit admissions is rejected
WitnessWindowExhausted ==
    /\ TheId # NoId /\ InFirstWindow(TheId)
    /\ stats[TheId].age = 1
    /\ cfg.limit >= 2
    /\ pc[SeqCaller] = "idle"
    /\ ret.path = "denied"
    /\ lim[TheId].last_seen = now
    /\ lim[TheId].window.current_count = cfg.limit

\* caller c's step is a call of SlidingWindow::allow
AllowCalled(c) == pc[c] = "decide" /\ pc'[c] = "idle" /\ ~consumed[c]

EffectiveNonNegativeStep ==
    \A c \in Callers :
        AllowCalled(c) => EffectiveScaled(lim[bucket[c]].window, now) >= 0

\* C17: the effective count allow() computes is >= 0 in every call, also in a
\* call that rolls the window over after more than window_size.
EffectiveNonNegative == [][EffectiveNonNegativeStep]_vars

RolloverRecomputesStep ==
    \A c \in Callers :
        LET w == lim[bucket[c]].window
        IN  (AllowCalled(c) /\ Elapsed(w, now) >= cfg.window_size) =>
                /\ lim'[bucket[c]].window.prev_count = w.current_count
                /\ lim'[bucket[c]].window.current_window_start = now
                \* weight 0: the effective count is the closed window's count
                /\ EffectiveScaled(w, now) = w.current_count * cfg.window_size
                /\ w.current_count = cfg.limit => ~ret'.allowed

\* C18: rollover step.  In an allow() call with elapsed >= window_size the
\* window rolls over, elapsed is taken anew from the new start, so that the
\* weight is 0 and the effective count is the count of the window just
\* closed; a call that rolls over a window closed with limit calls is rejected.
RolloverRecomputes == [][RolloverRecomputesStep]_vars

StrictTieBreakStep ==
    \A c \in Callers :
        LET w == lim[bucket[c]].window
            effective == EffectiveScaled(w, now)
            ceiling == cfg.limit * cfg.window_size
            counted == lim'[bucket[c]].window.current_count
                           - Rollover(w, now).current_count
        IN  AllowCalled(c) =>
                /\ ret'.allowed <=> effective < ceiling
                /\ counted = IF effective < ceiling THEN 1 ELSE 0
                /\ effective = ceiling => ~ret'.allowed

\* C19: strict tie-break.  allow() admits the call, and counts it, if and
\* only if the effective count is below limit; a call whose effective count
\* equals limit is rejected.
StrictTieBreak == [][StrictTieBreakStep]_vars

\* a call has just been rejected with the effective count, interpolated from
\* both windows, exactly at limit
WitnessTieRejected ==
    /\ TheId # NoId
    /\ pc[SeqCaller] = "idle"
    /\ ret.path = "denied"
    /\ lim[TheId].last_seen = now
    /\ lim[TheId].window.prev_count > 0
    /\ lim[TheId].window.current_count > 0
    /\ EffectiveScaled(lim[TheId].window, now) = cfg.limit * cfg.window_size

\* ---- rejections ---------------------------------------------------------
RejectedConsumesNothingStep ==
    \A c \in Callers :
        LET before == lim[bucket[c]]
            after == lim'[bucket[c]]
        IN  \* try_consume fails: the tokens are the refilled ones, none taken
            /\ (pc[c] = "cs" /\ pc'[c] = "decide" /\ ~consumed'[c]) =>
                  after.bucket.tokens >= before.bucket.tokens
            /\ AllowCalled(c) => after.bucket.tokens = before.bucket.tokens
            \* allow() rejects, is_allowed returns a denial
            /\ (pc[c] = "decide" /\ pc'[c] = "idle" /\ ~ret'.allowed) =>
                  /\ ~consumed[c]
                  /\ after.bucket.tokens = before.bucket.tokens
                  /\ after.window.current_count = before.window.current_count
                  /\ ret'.remaining = before.bucket.tokens

\* C20: a rejected request consumes nothing.  A failing try_consume leaves
\* the tokens at their value after the refill, a rejecting allow() leaves
\* current_count as it was, and so a denied is_allowed call neither takes
\* tokens nor adds to the window's count.
RejectedConsumesNothing == [][RejectedConsumesNothingStep]_vars

\* a call was denied with part of a token in the bucket and the window full:
\* both are still there
WitnessDeniedKeepsState ==
    /\ TheId # NoId
    /\ pc[SeqCaller] = "idle"
    /\ ret.path = "denied"
    /\ ret.remaining > 0
    /\ lim[TheId].bucket.tokens = ret.remaining
    /\ lim[TheId].window.current_count = cfg.limit
    /\ lim[TheId].window.prev_count = 0

\* ---- properties: the two stages, last_seen, the counts -------------------
TryConsumeCalled(c) == pc[c] = "cs" /\ pc'[c] = "decide"
Returned(c) == pc[c] = "decide" /\ pc'[c] = "idle"

\* the window's counts are window-path admissions made since its start
WindowCountsOnlyWindowPath ==
    TheId # NoId =>
        lim[TheId].window.current_count <=
            AdmittedIn(lim[TheId].window.current_window_start, now + 1, {"window"})

TwoStageStep ==
    /\ \A c \in Callers :
          LET before == lim[bucket[c]]
              after == lim'[bucket[c]]
          IN  \* try_consume does not touch the window
              /\ TryConsumeCalled(c) => after.window = before.window
              \* the bucket admits: allow() is not called
              /\ (Returned(c) /\ consumed[c]) =>
                    /\ after.window = before.window
                    /\ ret'.path = "bucket"
    \* the window of a limiter changes only in the allow() of a call the
    \* bucket rejected
    /\ \A i \in Ids :
          (stats[i] # NoStats /\ lim'[i].window # lim[i].window) =>
              \E c \in Callers : bucket[c] = i /\ AllowCalled(c)
    /\ WindowCountsOnlyWindowPath'

\* C23: two-stage ordering.  is_allowed calls the sliding window only when
\* the bucket rejects; a call that try_consume admits leaves current_count,
\* prev_count and current_window_start as they were, so that calls admitted
\* by the bucket are never counted in the window.
TwoStageOrdering == [][TwoStageStep]_vars

\* two calls were admitted by the bucket and the window has counted nothing
WitnessBucketNotCounted ==
    /\ TheId # NoId
    /\ pc[SeqCaller] = "idle"
    /\ ret.path = "bucket"
    /\ AdmittedIn(0, now + 1, {"bucket"}) >= 2
    /\ lim[TheId].window.current_count = 0
    /\ lim[TheId].window.prev_count = 0

LastSeenStep ==
    /\ \A c \in Callers :
          \* is_allowed starts: last_seen is the time of the call
          /\ TryConsumeCalled(c) => lim'[bucket[c]].last_seen = now
          \* is_allowed returns, by any of the three paths: last_seen is
          \* the time at which the call read the clock
          /\ (Returned(c) /\ stats'[bucket[c]] # NoStats) =>
                /\ ret'.path \in {"bucket", "window", "denied"}
                /\ lim'[bucket[c]].last_seen = lim[bucket[c]].bucket.last_refill
    /\ \A i \in Ids :
          (stats[i] # NoStats /\ stats'[i] # NoStats) =>
              /\ lim'[i].last_seen >= lim[i].last_seen
              /\ lim'[i].last_seen <= now'

\* C24: every is_allowed call on a key, admitted by the bucket, admitted by
\* the window or denied, sets the limiter's last_seen to the time of the
\* call; last_seen never decreases, so it is never older than the key's most
\* recent access.
LastSeenTracksAccess == [][LastSeenStep]_vars

\* a denied call, made after the clock advanced, has left its time in last_seen
WitnessDeniedSeen ==
    /\ ret.path = "denied"
    /\ now > 0
    /\ \A c \in Callers : pc[c] = "idle"
    /\ \E k \in Keys : map[k] # NoId /\ lim[map[k]].last_seen = now

\* C25: window count bound.  In every reachable state of a sliding window
\* with limit L >= 0, current_count <= L and prev_count <= L.
WindowCountBound ==
    \A i \in Ids :
        /\ lim[i].window.current_count <= cfg.limit
        /\ lim[i].window.prev_count <= cfg.limit
        /\ lim[i].window.current_count >= 0
        /\ lim[i].window.prev_count >= 0

\* a window closed with limit calls, and the one after it is full as well
WitnessBothCountsAtLimit ==
    /\ TheId # NoId
    /\ cfg.limit >= 1
    /\ lim[TheId].window.current_count = cfg.limit
    /\ lim[TheId].window.prev_count = cfg.limit

\* ---- properties: eviction against requests --------------------------------
RemoveCalled == spc = "remove" /\ keys_to_remove # <<>> /\ map' # map

\* C26: eviction never removes an active limiter.  When the task removes a
\* key, the key's limiter has a last_seen older than bucket_ttl at the
\* cycle's `now`: a key that is_allowed touched after the scan saw it is not
\* removed in that cycle.
EvictsOnlyIdle ==
    [][RemoveCalled =>
          Expired(lim[map[Head(keys_to_remove)]], sweepNow)]_vars

\* C27: no orphaned limiter is used.  No is_allowed call is in its critical
\* section on an instance the task has removed from the map, and the calls
\* in flight for one key all hold the same instance.
NoOrphanUsed ==
    /\ \A c \in Callers : InCS(c) => ~stats[bucket[c]].evicted
    /\ \A c1, c2 \in Callers :
          (Holding(c1) /\ Holding(c2) /\ key[c1] = key[c2]) =>
              bucket[c1] = bucket[c2]

\* ---- properties: the retry hint, stale counts -----------------------------
RetryHintSufficientStep ==
    \A c \in Callers :
        /\ (/\ TryConsumeCalled(c)
            /\ ret.path = "denied"
            /\ \E r \in ret.retry_after :
                  now >= lim[bucket[c]].last_seen + r) => consumed'[c]
        /\ (Returned(c) /\ consumed[c]) => ret'.allowed

\* C28: the retry hint is sufficient.  After a denial with retry_after = r
\* (refill_per_sec > 0, capacity >= 1), the next call for the key, made r
\* seconds or more after the denied one and with no call in between, finds a
\* whole token in the bucket and is allowed.
RetryHintSufficient == [][RetryHintSufficientStep]_vars

\* the call after a denial with retry_after = 2 came 2 seconds later and
\* found exactly one token
WitnessRetriedInTime ==
    /\ TheId # NoId
    /\ pc[SeqCaller] = "decide"
    /\ ret.path = "denied"
    /\ ret.retry_after = {2}
    /\ consumed[SeqCaller]
    /\ lim[TheId].bucket.tokens = TokenUnit

StaleCountsExpireStep ==
    \A c \in Callers :
        LET w == lim[bucket[c]].window
        IN  (AllowCalled(c) /\ Elapsed(w, now) >= 3 * cfg.window_size) =>
                lim'[bucket[c]].window.prev_count = 0

\* C29: stale counts expire.  An allow() call on a window that started three
\* or more window_size ago, and so has had no call for more than two, leaves
\* prev_count at 0: that call and the calls of the window it opens are
\* decided with a previous-window contribution of 0.
StaleCountsExpire == [][StaleCountsExpireStep]_vars

\* ---- properties: authentication ------------------------------------------
Answered == http.op = "call"

\* the request carries no Authorization header the middleware takes a token from
NoBearer == ExtractToken(http.authorization) = {}

\* C21: protected endpoints require authentication.  A request whose path and
\* method are not a public route and that carries no well-formed Bearer
\* Authorization header is answered 401 Unauthorized by the middleware, and
\* the wrapped service is not called.
ProtectedRequiresAuth ==
    (Answered /\ ~IsPublicRoute(http.path, http.method) /\ NoBearer) =>
        /\ http.status = 401
        /\ ~http.forwarded

Contains(msg, phrase) == \E i \in 1..Len(msg) : msg[i] = phrase

\* the request is for the dashboard's route and carries, as a Bearer token, an
\* access token that was issued, has not expired and is not on the deny list,
\* and Redis, where the App has a pool, answers the deny-list lookup
DashboardWith(admin) ==
    /\ Answered
    /\ Route(http.path, http.method) = "admin_dashboard"
    /\ \E tok \in issued :
           /\ ExtractToken(http.authorization) = {tok}
           /\ DecodeJwt(tok, http.at).ok
           /\ tok.admin = admin
           /\ ~Exists(PrefixedKey(ACCESS_DENY_PREFIX, tok), http.at)
    /\ redis_pool => http.up

LogoutRevokesRefresh ==
    (/\ http.op = "refresh"
     /\ http.token \in revoked
     /\ Exists(PrefixedKey(REFRESH_DENY_PREFIX, http.token), http.at)) =>
        /\ ~http.ok
        /\ http.err = "RevokedToken"
        /\ http.pair = NoPair

====
